---- MODULE Spec2Model ----
(***************************************************************************)
(* A model of src/main.py: the e-commerce API (products and orders backed  *)
(* by two MongoDB collections).                                            *)
(*                                                                         *)
(* The two collections are the shared state.  A handler is a sequence of   *)
(* store operations (count_documents, find, find_one, insert_one); each    *)
(* store operation is atomic, and the Python between two store operations  *)
(* is folded into the step of the store operation that follows it.         *)
(* Requests run in the slots of Reqs; a slot holds the request's arguments,*)
(* its position, its local variables and, once it returned, its response.  *)
(*                                                                         *)
(* Modelling decisions:                                                    *)
(*  - text (product names, the name filter, product ids, str(int)) is a    *)
(*    sequence of one-character strings;                                   *)
(*  - Optional[T] is a sequence of length 0 (None) or 1 (the value);       *)
(*  - an ObjectId is a natural number, written as IdWidth hex digits       *)
(*    (24 in the program); insert_one gives a document the next id of its  *)
(*    collection, so sorting by _id is insertion order;                    *)
(*  - prices and totals are integer-valued floats (exact arithmetic);      *)
(*  - createdAt is written once and read by no handler; it is left out;    *)
(*  - every store operation may raise (connection failure); insert_one     *)
(*    either stores the document and returns, or raises and stores nothing;*)
(*  - requests interleave between store operations, as they do when the    *)
(*    application is served by several workers on one database.            *)
(*                                                                         *)
(* Spec runs requests concurrently; SpecSeq and SpecFilter run one request *)
(* at a time over more query parameters; SpecWalk adds a paging client.    *)
(***************************************************************************)
EXTENDS Integers, Sequences, FiniteSets, TLC

VARIABLES products, orders, call, pc, local, resp, walk

vars == <<products, orders, call, pc, local, resp, walk>>

(***************************************************************************)
(* Bounds of the model                                                     *)
(***************************************************************************)
MaxProducts == 2
MaxOrders == 2
MaxLimit == 2
MaxOffset == 3
IdWidth == 2
FirstId == 10

Reqs == {1, 2}

None == <<>>
Some(v) == <<v>>
IsSome(o) == Len(o) = 1
Val(o) == o[1]

Max(a, b) == IF a >= b THEN a ELSE b
Min(a, b) == IF a <= b THEN a ELSE b

(***************************************************************************)
(* Text                                                                    *)
(***************************************************************************)
Digits == <<"0", "1", "2", "3", "4", "5", "6", "7", "8", "9">>
HexDigits == Digits \o <<"a", "b", "c", "d", "e", "f">>
UpperHexDigits == Digits \o <<"A", "B", "C", "D", "E", "F">>

IndexOf(c, table) == CHOOSE i \in 1..Len(table) : table[i] = c
InTable(c, table) == \E i \in 1..Len(table) : table[i] = c

\* str.lower / str.upper on one character of the alphabet in use
LowerChar(c) ==
  IF InTable(c, UpperHexDigits) THEN HexDigits[IndexOf(c, UpperHexDigits)] ELSE c
UpperChar(c) ==
  IF InTable(c, HexDigits) THEN UpperHexDigits[IndexOf(c, HexDigits)] ELSE c
Upper(s) == [i \in 1..Len(s) |-> UpperChar(s[i])]

\* str(n) for an int n >= 0
RECURSIVE Str(_)
Str(n) == IF n < 10 THEN <<Digits[n + 1]>> ELSE Str(n \div 10) \o <<Digits[(n % 10) + 1]>>

\* int(s) for a string of decimal digits
RECURSIVE ParseInt(_)
ParseInt(s) ==
  IF Len(s) = 0 THEN 0
  ELSE 10 * ParseInt(SubSeq(s, 1, Len(s) - 1)) + (IndexOf(s[Len(s)], Digits) - 1)

(***************************************************************************)
(* bson.ObjectId                                                           *)
(***************************************************************************)
RECURSIVE ToHex(_, _)
ToHex(n, w) == IF w = 0 THEN <<>> ELSE ToHex(n \div 16, w - 1) \o <<HexDigits[(n % 16) + 1]>>

RECURSIVE FromHex(_)
FromHex(s) ==
  IF Len(s) = 0 THEN 0
  ELSE 16 * FromHex(SubSeq(s, 1, Len(s) - 1))
       + (IndexOf(LowerChar(s[Len(s)]), HexDigits) - 1)

\* str(oid): the lower-case hex spelling
ObjectIdStr(oid) == ToHex(oid, IdWidth)

\* ObjectId(s): None stands for the InvalidId exception
ObjectId(s) ==
  IF Len(s) = IdWidth
     /\ \A i \in 1..Len(s) : InTable(s[i], HexDigits) \/ InTable(s[i], UpperHexDigits)
  THEN Some(FromHex(s))
  ELSE None

\* the _id insert_one gives a new document of collection coll
NewId(coll) == FirstId + Cardinality(coll)

(***************************************************************************)
(* Request bodies (the pydantic models) and the inputs the model draws     *)
(***************************************************************************)
\* ProductCreate: name: str, price: float, sizes: List[Size]; no range is validated
ProductInputs ==
  { [name |-> <<"A", "b">>, price |-> 20,
     sizes |-> << [size |-> "S", quantity |-> 0], [size |-> "M", quantity |-> 5] >>],
    [name |-> <<"b">>, price |-> -3, sizes |-> << >>] }

Users == {"u1", "u2"}

\* OrderItem: productId: str, qty: int
Item(pid, q) == [productId |-> pid, qty |-> q]

\* product ids a client may send: the stored spelling, its upper-case spelling,
\* a string that is no ObjectId
IdOf(k) == ObjectIdStr(FirstId + k)
BadId == <<"z", "z">>

\* OrderCreate: userId: str, items: List[OrderItem]
OrderInputs ==
  { [userId |-> "u1", items |-> << >>],
    [userId |-> "u1", items |-> << Item(IdOf(0), 2) >>],
    [userId |-> "u2", items |-> << Item(Upper(IdOf(0)), 1), Item(IdOf(1), -3) >>],
    [userId |-> "u1", items |-> << Item(IdOf(0), 2), Item(BadId, 1), Item(IdOf(1), 1) >>] }

(***************************************************************************)
(* The store: pymongo collections as sets of documents                     *)
(***************************************************************************)
\* (mutant) an insert that overwrites the newest document of the collection
InsertOne_Overwriting(coll, doc) ==
  {d \in coll : d._id + 1 # doc._id} \cup {doc}

\* collection.insert_one(doc)
InsertOne(coll, doc) == coll \cup {doc}

\* cursor.sort("_id", 1): the documents of S as a sequence, ascending _id
RECURSIVE SortById(_)
SortById(S) ==
  IF S = {} THEN <<>>
  ELSE LET first == CHOOSE d \in S : \A e \in S : d._id <= e._id
       IN  <<first>> \o SortById(S \ {first})

\* (mutant) a cursor that applies limit and forgets skip
SkipLimit_NoSkip(sorted, offset, limit) == SubSeq(sorted, 1, Min(Len(sorted), limit))

\* cursor.skip(offset).limit(limit) over a sorted sequence
SkipLimit(sorted, offset, limit) ==
  SubSeq(sorted, offset + 1, Min(Len(sorted), offset + limit))

\* find(filter).sort("_id", 1).skip(offset).limit(limit), matching = the documents
\* of the collection the filter selects
FindPage(matching, offset, limit) == SkipLimit(SortById(matching), offset, limit)

\* count_documents(filter)
CountDocuments(matching) == Cardinality(matching)

\* products_collection.find_one({"_id": oid}): None when there is none
FindOneProduct(oid) ==
  IF \E p \in products : p._id = oid
  THEN Some(CHOOSE p \in products : p._id = oid)
  ELSE None

(***************************************************************************)
(* The product query filter                                                *)
(***************************************************************************)
\* Python truthiness of an Optional[str]: None and "" are falsy
TruthyText(o) == IsSome(o) /\ Val(o) # <<>>
TruthyLabel(o) == IsSome(o) /\ Val(o) # ""

\* query_filter of list_products: a key is present when its parameter is truthy
ProductQueryFilter(name, size) ==
  [name |-> IF TruthyText(name) THEN name ELSE None,
   size |-> IF TruthyLabel(size) THEN size ELSE None]

\* the pattern language in use: "." matches any character, "(" opens a group
\* (never closed with this alphabet: the store rejects the pattern), any other
\* character matches itself
RegexValid(pattern) == \A i \in 1..Len(pattern) : pattern[i] # "("

\* (mutant) the search without "$options": "i"
RegexSearch_CaseSensitive(pattern, text) ==
  \E start \in 0..(Len(text) - Len(pattern)) :
    \A k \in 1..Len(pattern) : pattern[k] = "." \/ pattern[k] = text[start + k]

\* {"$regex": pattern, "$options": "i"}: an unanchored, case-insensitive search
RegexSearch(pattern, text) ==
  \E start \in 0..(Len(text) - Len(pattern)) :
    \A k \in 1..Len(pattern) :
      \/ pattern[k] = "."
      \/ LowerChar(pattern[k]) = LowerChar(text[start + k])

\* whether the store can evaluate the filter
FilterValid(f) == IsSome(f.name) => RegexValid(Val(f.name))

\* {"name": {"$regex": ..}, "sizes.size": size}
MatchesProduct(p, f) ==
  /\ IsSome(f.name) => RegexSearch(Val(f.name), p.name)
  /\ IsSome(f.size) => \E i \in 1..Len(p.sizes) : p.sizes[i].size = Val(f.size)

MatchingProducts(coll, f) == {p \in coll : MatchesProduct(p, f)}

\* {"userId": user_id}
MatchingOrders(coll, user_id) == {o \in coll : o.userId = user_id}

(***************************************************************************)
(* Response shaping                                                        *)
(***************************************************************************)
product_helper(product) ==
  [id |-> ObjectIdStr(product._id), name |-> product.name, price |-> product.price]

order_helper(order) ==
  [id |-> ObjectIdStr(order._id), items |-> order.items, total |-> order.total]

\* (mutant) next_offset with <= for <
NextOffset_OffByOne(offset, limit, total_count) ==
  IF offset + limit <= total_count THEN Some(offset + limit) ELSE None

\* (mutant) prev_offset without the clamp at 0
PrevOffset_Unclamped(offset, limit) ==
  IF offset > limit THEN Some(offset - limit) ELSE None

\* next_offset and prev_offset: None when absent
NextOffset(offset, limit, total_count) ==
  IF offset + limit < total_count THEN Some(offset + limit) ELSE None

PrevOffset(offset, limit) ==
  IF offset > 0 THEN Some(Max(0, offset - limit)) ELSE None

\* str(x) if x is not None else None
StrOrNone(o) == IF IsSome(o) THEN Some(Str(Val(o))) ELSE None

Pagination(offset, limit, total_count) ==
  [next |-> StrOrNone(NextOffset(offset, limit, total_count)),
   limit |-> limit,
   previous |-> StrOrNone(PrevOffset(offset, limit))]

\* exceptions: an HTTPException carries its status; anything else is a store error
HTTPException(status_code, detail) ==
  [type |-> "HTTPException", status_code |-> status_code, detail |-> detail]
StoreError == [type |-> "Exception", status_code |-> 0, detail |-> <<"store error", <<>> >>]

\* except Exception as e: raise HTTPException(500, str(e))
Except500(e) == [status |-> 500, body |-> [detail |-> e.detail]]

\* (mutant) create_order without its "except HTTPException: raise"
CreateOrderExcept_All500(e) == Except500(e)

\* create_order: except HTTPException: raise; except Exception: 500
CreateOrderExcept(e) ==
  IF e.type = "HTTPException"
  THEN [status |-> e.status_code, body |-> [detail |-> e.detail]]
  ELSE Except500(e)

Ok(status, body) == [status |-> status, body |-> body]

NoResp == [status |-> 0, body |-> [detail |-> <<"none", <<>> >>]]
NoLocal == [idx |-> 0]
Idle == [op |-> "idle"]

(***************************************************************************)
(* The handlers                                                            *)
(***************************************************************************)
Free(r) == pc[r] \in {"idle", "done"}

\* the request in slot r returns response x
Return(r, x) ==
  /\ resp' = [resp EXCEPT ![r] = x]
  /\ pc' = [pc EXCEPT ![r] = "done"]
  /\ local' = [local EXCEPT ![r] = NoLocal]

\* create_order requests that have not returned yet
OrdersInFlight == Cardinality({r \in Reqs : pc[r] \in {"co_loop", "co_insert"}})

\* POST /products: one insert_one, answered 201 {id}; 500 when the store raises
CreateProduct(r, product) ==
  /\ Free(r)
  /\ call' = [call EXCEPT ![r] = [op |-> "create_product", product |-> product]]
  /\ \/ /\ Return(r, Except500(StoreError))
        /\ UNCHANGED products
     \/ LET id == NewId(products)
            product_dict == [_id |-> id, name |-> product.name,
                             price |-> product.price, sizes |-> product.sizes]
        IN  /\ products' = InsertOne(products, product_dict)
            /\ Return(r, Ok(201, [id |-> ObjectIdStr(id)]))
  /\ UNCHANGED orders

\* GET /products up to count_documents
ListProductsCount(r, name, size, limit, offset) ==
  /\ Free(r)
  /\ call' = [call EXCEPT ![r] = [op |-> "list_products", name |-> name, size |-> size,
                                  limit |-> limit, offset |-> offset]]
  /\ LET query_filter == ProductQueryFilter(name, size)
     IN  \/ /\ FilterValid(query_filter)
            /\ pc' = [pc EXCEPT ![r] = "lp_find"]
            /\ local' = [local EXCEPT ![r] =
                 [total_count |-> CountDocuments(MatchingProducts(products, query_filter))]]
            /\ resp' = [resp EXCEPT ![r] = NoResp]
         \/ Return(r, Except500(StoreError))
  /\ UNCHANGED <<products, orders>>

\* GET /products from find(..) to the response
ListProductsFind(r) ==
  /\ pc[r] = "lp_find"
  /\ LET c == call[r]
         query_filter == ProductQueryFilter(c.name, c.size)
         found == FindPage(MatchingProducts(products, query_filter), c.offset, c.limit)
     IN  \/ Return(r, Ok(200, [data |-> [i \in 1..Len(found) |-> product_helper(found[i])],
                               page |-> Pagination(c.offset, c.limit, local[r].total_count)]))
         \/ Return(r, Except500(StoreError))
  /\ UNCHANGED <<products, orders, call>>

\* (mutant) the item record holding the stored spelling of the product's id
OrderItemRecord_StoredId(product, item) ==
  [productDetails |-> [name |-> product.name, id |-> ObjectIdStr(product._id)],
   qty |-> item.qty]

\* the record create_order keeps of one item
OrderItemRecord(product, item) ==
  [productDetails |-> [name |-> product.name, id |-> item.productId], qty |-> item.qty]

\* POST /orders: the request arrives; total_price = 0.0, order_items = []
CreateOrderBegin(r, order) ==
  /\ Free(r)
  /\ call' = [call EXCEPT ![r] = [op |-> "create_order", order |-> order]]
  /\ local' = [local EXCEPT ![r] = [idx |-> 1, total_price |-> 0, order_items |-> <<>>]]
  /\ pc' = [pc EXCEPT ![r] = IF order.items = <<>> THEN "co_insert" ELSE "co_loop"]
  /\ resp' = [resp EXCEPT ![r] = NoResp]
  /\ UNCHANGED <<products, orders>>

\* (mutant) an iteration that, finding no product, stores the items resolved so far
CreateOrderItem_PersistsPrefix(r) ==
  /\ pc[r] = "co_loop"
  /\ LET items == call[r].order.items
         l == local[r]
         item == items[l.idx]
         product_id == ObjectId(item.productId)
         product == FindOneProduct(Val(product_id))
     IN  IF product_id = None
         THEN /\ Return(r, CreateOrderExcept(
                   HTTPException(400, <<"Invalid product ID", item.productId>>)))
              /\ UNCHANGED orders
         ELSE \/ /\ Return(r, CreateOrderExcept(StoreError))
                 /\ UNCHANGED orders
              \/ /\ product = None
                 /\ Return(r, CreateOrderExcept(
                      HTTPException(404, <<"Product not found", item.productId>>)))
                 /\ orders' = orders \cup
                      {[_id |-> NewId(orders), userId |-> call[r].order.userId,
                        items |-> l.order_items, total |-> l.total_price]}
              \/ /\ product # None
                 /\ local' = [local EXCEPT ![r] =
                      [idx |-> l.idx + 1,
                       total_price |-> l.total_price + Val(product).price * item.qty,
                       order_items |-> Append(l.order_items,
                                              OrderItemRecord(Val(product), item))]]
                 /\ pc' = [pc EXCEPT ![r] =
                      IF l.idx = Len(items) THEN "co_insert" ELSE "co_loop"]
                 /\ UNCHANGED <<resp, orders>>
  /\ UNCHANGED <<products, call>>

\* one iteration of "for item in order.items"
CreateOrderItem(r) ==
  /\ pc[r] = "co_loop"
  /\ LET items == call[r].order.items
         l == local[r]
         item == items[l.idx]
         product_id == ObjectId(item.productId)
         product == FindOneProduct(Val(product_id))
     IN  IF product_id = None
         THEN Return(r, CreateOrderExcept(
                HTTPException(400, <<"Invalid product ID", item.productId>>)))
         ELSE \/ Return(r, CreateOrderExcept(StoreError))
              \/ /\ product = None
                 /\ Return(r, CreateOrderExcept(
                      HTTPException(404, <<"Product not found", item.productId>>)))
              \/ /\ product # None
                 /\ local' = [local EXCEPT ![r] =
                      [idx |-> l.idx + 1,
                       total_price |-> l.total_price + Val(product).price * item.qty,
                       order_items |-> Append(l.order_items,
                                              OrderItemRecord(Val(product), item))]]
                 /\ pc' = [pc EXCEPT ![r] =
                      IF l.idx = Len(items) THEN "co_insert" ELSE "co_loop"]
                 /\ UNCHANGED resp
  /\ UNCHANGED <<products, orders, call>>

\* order_doc and orders_collection.insert_one(order_doc)
CreateOrderInsert(r) ==
  /\ pc[r] = "co_insert"
  /\ \/ /\ Return(r, CreateOrderExcept(StoreError))
        /\ UNCHANGED orders
     \/ LET id == NewId(orders)
            order_doc == [_id |-> id, userId |-> call[r].order.userId,
                          items |-> local[r].order_items,
                          total |-> local[r].total_price]
        IN  /\ orders' = InsertOne(orders, order_doc)
            /\ Return(r, Ok(201, [id |-> ObjectIdStr(id)]))
  /\ UNCHANGED <<products, call>>

\* GET /orders/{user_id} up to count_documents
GetUserOrdersCount(r, user_id, limit, offset) ==
  /\ Free(r)
  /\ call' = [call EXCEPT ![r] = [op |-> "get_user_orders", user_id |-> user_id,
                                  limit |-> limit, offset |-> offset]]
  /\ \/ /\ pc' = [pc EXCEPT ![r] = "uo_find"]
        /\ local' = [local EXCEPT ![r] =
             [total_count |-> CountDocuments(MatchingOrders(orders, user_id))]]
        /\ resp' = [resp EXCEPT ![r] = NoResp]
     \/ Return(r, Except500(StoreError))
  /\ UNCHANGED <<products, orders>>

\* GET /orders/{user_id} from find(..) to the response
GetUserOrdersFind(r) ==
  /\ pc[r] = "uo_find"
  /\ LET c == call[r]
         found == FindPage(MatchingOrders(orders, c.user_id), c.offset, c.limit)
     IN  \/ Return(r, Ok(200, [data |-> [i \in 1..Len(found) |-> order_helper(found[i])],
                               page |-> Pagination(c.offset, c.limit, local[r].total_count)]))
         \/ Return(r, Except500(StoreError))
  /\ UNCHANGED <<products, orders, call>>

(***************************************************************************)
(* Query parameters the model draws                                        *)
(***************************************************************************)
NameInputs ==
  {None, Some(<<>>), Some(<<"a", "b">>), Some(<<"b">>), Some(<<".">>), Some(<<"(">>)}
SizeInputs == {None, Some(""), Some("M"), Some("L")}
Limits == 1..MaxLimit
Offsets == 0..MaxOffset

NoWalk == [active |-> FALSE]

Init ==
  /\ products = {}
  /\ orders = {}
  /\ call = [r \in Reqs |-> Idle]
  /\ pc = [r \in Reqs |-> "idle"]
  /\ local = [r \in Reqs |-> NoLocal]
  /\ resp = [r \in Reqs |-> NoResp]
  /\ walk = NoWalk

(***************************************************************************)
(* Spec: requests served concurrently.                                     *)
(* The collections are capped (MaxProducts, MaxOrders).  Two list queries  *)
(* do not affect each other, so the slots of Readers alone issue them,     *)
(* with the (limit, offset) pairs of ConcPages.                            *)
(***************************************************************************)
Readers == {1}
ConcPages == {<<1, 0>>, <<1, 1>>, <<2, 0>>}

ProductRoom(n) == Cardinality(products) < n
OrderRoom(n) == Cardinality(orders) + OrdersInFlight < n

Next ==
  \E r \in Reqs :
    \/ \E product \in ProductInputs :
         ProductRoom(MaxProducts) /\ CreateProduct(r, product) /\ UNCHANGED walk
    \/ \E pg \in ConcPages :
         /\ r \in Readers
         /\ ListProductsCount(r, None, None, pg[1], pg[2])
         /\ UNCHANGED walk
    \/ ListProductsFind(r) /\ UNCHANGED walk
    \/ \E order \in OrderInputs :
         OrderRoom(MaxOrders) /\ CreateOrderBegin(r, order) /\ UNCHANGED walk
    \/ CreateOrderItem(r) /\ UNCHANGED walk
    \/ CreateOrderInsert(r) /\ UNCHANGED walk
    \/ \E user_id \in Users, pg \in ConcPages :
         /\ r \in Readers
         /\ GetUserOrdersCount(r, user_id, pg[1], pg[2])
         /\ UNCHANGED walk
    \/ GetUserOrdersFind(r) /\ UNCHANGED walk

Spec == Init /\ [][Next]_vars

(***************************************************************************)
(* SpecSeq: one request at a time (slot 1 alone), every page of Limits x   *)
(* Offsets, one more product and order than Spec allows.                   *)
(***************************************************************************)
SeqNames == {None, Some(<<"b">>)}
SeqOrderInputs ==
  { [userId |-> "u1", items |-> << >>],
    [userId |-> "u2", items |-> << Item(IdOf(0), 2) >>] }

NextSeq ==
  \/ \E product \in ProductInputs :
       ProductRoom(MaxProducts + 1) /\ CreateProduct(1, product) /\ UNCHANGED walk
  \/ \E name \in SeqNames, limit \in Limits, offset \in Offsets :
       ListProductsCount(1, name, None, limit, offset) /\ UNCHANGED walk
  \/ ListProductsFind(1) /\ UNCHANGED walk
  \/ \E order \in SeqOrderInputs :
       OrderRoom(MaxOrders + 1) /\ CreateOrderBegin(1, order) /\ UNCHANGED walk
  \/ CreateOrderItem(1) /\ UNCHANGED walk
  \/ CreateOrderInsert(1) /\ UNCHANGED walk
  \/ \E user_id \in Users, limit \in Limits, offset \in Offsets :
       GetUserOrdersCount(1, user_id, limit, offset) /\ UNCHANGED walk
  \/ GetUserOrdersFind(1) /\ UNCHANGED walk

SpecSeq == Init /\ [][NextSeq]_vars

(***************************************************************************)
(* SpecFilter: products are created and listed with every combination of   *)
(* the name and size parameters, one request at a time.                    *)
(***************************************************************************)
NextFilter ==
  \/ \E product \in ProductInputs :
       ProductRoom(MaxProducts + 1) /\ CreateProduct(1, product) /\ UNCHANGED walk
  \/ \E name \in NameInputs, size \in SizeInputs, limit \in Limits, offset \in {0, 1} :
       ListProductsCount(1, name, size, limit, offset) /\ UNCHANGED walk
  \/ ListProductsFind(1) /\ UNCHANGED walk

SpecFilter == Init /\ [][NextFilter]_vars

(***************************************************************************)
(* Properties                                                              *)
(***************************************************************************)
IsCall(r, op) == call[r].op = op
Returned(r, op) == pc[r] = "done" /\ call[r].op = op
\* slot r's request returns in this step
Returns(r) == pc[r] # "done" /\ pc[r] # "idle" /\ pc'[r] = "done"
\* slot r runs one iteration of create_order's loop in this step
LoopStep(r) == pc[r] = "co_loop" /\ (pc'[r] # pc[r] \/ local'[r] # local[r])

WellFormed(pid) == ObjectId(pid) # None
StoredWithId(pid) == {p \in products : WellFormed(pid) /\ p._id = Val(ObjectId(pid))}
ErrorResp(status, what, pid) == [status |-> status, body |-> [detail |-> <<what, pid>>]]
StoreErrorResp == [status |-> 500, body |-> [detail |-> <<"store error", <<>> >>]]

RECURSIVE SumSeq(_)
SumSeq(s) == IF s = <<>> THEN 0 ELSE s[1] + SumSeq(Tail(s))

\* C1: a create_order request that returns 201 added exactly one document to
\* orders in the step that returned, holding all the requested items; one that
\* returns anything else added none; and no other step changes orders.
C1_OneInsertOrNone ==
  [][ /\ \A r \in Reqs :
           (IsCall(r, "create_order") /\ Returns(r)) =>
             IF resp'[r].status = 201
             THEN /\ orders \subseteq orders'
                  /\ Cardinality(orders') = Cardinality(orders) + 1
                  /\ \A o \in orders' \ orders :
                       /\ o.userId = call[r].order.userId
                       /\ Len(o.items) = Len(call[r].order.items)
             ELSE orders' = orders
      /\ orders' # orders =>
           \E r \in Reqs : IsCall(r, "create_order") /\ Returns(r) /\ resp'[r].status = 201
    ]_vars

\* a create_order of two or more items failed at a later item, after the items
\* before it were resolved, and its user has no order
C1_Witness ==
  \E r \in Reqs :
    /\ Returned(r, "create_order")
    /\ resp[r].status \in {400, 404}
    /\ \E i \in 2..Len(call[r].order.items) :
         resp[r].body.detail[2] = call[r].order.items[i].productId
    /\ MatchingOrders(orders, call[r].order.userId) = {}
    /\ Cardinality(orders) = 1

\* C2: create_order looks its items up in list order; every item before the
\* current one was resolved; at an item whose productId is malformed the request
\* returns 400 citing it; at a well-formed id with no stored product it returns
\* 404 citing it (or 500 when the store itself fails); the request goes on to
\* the next item only when the product is stored; a 500 never carries the
\* message of the 400 or the 404.
C2_FirstOffendingItem ==
  [][ \A r \in Reqs :
        LoopStep(r) =>
          LET items == call[r].order.items
              i == local[r].idx
              pid == items[i].productId
          IN  /\ \A j \in 1..(i - 1) : StoredWithId(items[j].productId) # {}
              /\ ~WellFormed(pid) =>
                   /\ pc'[r] = "done"
                   /\ resp'[r] = ErrorResp(400, "Invalid product ID", pid)
              /\ (WellFormed(pid) /\ StoredWithId(pid) = {}) =>
                   /\ pc'[r] = "done"
                   /\ resp'[r] \in {ErrorResp(404, "Product not found", pid), StoreErrorResp}
              /\ (WellFormed(pid) /\ StoredWithId(pid) # {}) =>
                   \/ pc'[r] = "done" /\ resp'[r] = StoreErrorResp
                   \/ pc'[r] # "done" /\ local'[r].idx = i + 1
    ]_vars

\* a request of three items was refused with 400 at its second item
C2_Witness ==
  \E r \in Reqs :
    /\ Returned(r, "create_order")
    /\ Len(call[r].order.items) = 3
    /\ resp[r] = ErrorResp(400, "Invalid product ID", call[r].order.items[2].productId)

\* C4: the order a successful create_order persisted has the request's userId,
\* one record per requested item in the same order, each with the requested
\* productId, the referenced product's name and the requested qty, and a total
\* that is the sum of stored price x qty; no items gives total 0.
C4_PersistedOrder ==
  \A r \in Reqs :
    (Returned(r, "create_order") /\ resp[r].status = 201) =>
      LET req == call[r].order
          Ref(i) == CHOOSE p \in products : p._id = FromHex(req.items[i].productId)
      IN  \E o \in orders :
            /\ ObjectIdStr(o._id) = resp[r].body.id
            /\ o.userId = req.userId
            /\ Len(o.items) = Len(req.items)
            /\ \A i \in 1..Len(req.items) :
                 /\ StoredWithId(req.items[i].productId) # {}
                 /\ o.items[i].productDetails.id = req.items[i].productId
                 /\ o.items[i].productDetails.name = Ref(i).name
                 /\ o.items[i].qty = req.items[i].qty
                 /\ DOMAIN o.items[i] = {"productDetails", "qty"}
                 /\ DOMAIN o.items[i].productDetails = {"id", "name"}
            /\ o.total = SumSeq([i \in 1..Len(req.items) |-> Ref(i).price * req.items[i].qty])
            /\ (req.items = <<>> => o.items = <<>> /\ o.total = 0)

\* a request of two items, the first spelled in upper case, succeeded; and the
\* scenario of the specification: price 20, qty 2, total 40
C4_Witness ==
  /\ \E r \in Reqs :
       /\ Returned(r, "create_order") /\ resp[r].status = 201
       /\ Len(call[r].order.items) = 2
       /\ call[r].order.items[1].productId # IdOf(0)
  /\ \E o \in orders :
       /\ o.total = 40
       /\ o.items = << [productDetails |-> [name |-> <<"A", "b">>, id |-> IdOf(0)], qty |-> 2] >>

\* C6: every stored product and order stays stored with the same fields; a step
\* that changes products is a create_product and leaves orders alone; a step
\* that changes orders is a create_order and leaves products alone; the steps
\* of the two list operations change neither collection.
C6_Frame ==
  [][ /\ products \subseteq products'
      /\ orders \subseteq orders'
      /\ \A r \in Reqs :
           (pc'[r] # pc[r] \/ call'[r] # call[r] \/ resp'[r] # resp[r]
              \/ local'[r] # local[r]) =>
             /\ call'[r].op = "create_product" => orders' = orders
             /\ call'[r].op = "create_order" => products' = products
             /\ call'[r].op \in {"list_products", "get_user_orders"} =>
                  products' = products /\ orders' = orders
      /\ \A p \in products' \ products, q \in products : p._id # q._id
      /\ \A o \in orders' \ orders, q \in orders : o._id # q._id
    ]_vars

\* both collections are full and a list query has returned
C6_Witness ==
  /\ Cardinality(products) = MaxProducts
  /\ Cardinality(orders) = MaxOrders
  /\ \E r \in Reqs : Returned(r, "list_products") /\ resp[r].status = 200
  /\ \E o \in orders : Len(o.items) = 2

\* C7: every stored product has price >= 0 and every stored order total >= 0
C7_NonNegative ==
  /\ \A p \in products : p.price >= 0
  /\ \A o \in orders : o.total >= 0

\* C9: the pagination descriptor of a returned list agrees with the collection
\* the page was read from: next is absent only if no matching document lies
\* beyond the page, and present only if one lies at position offset + limit.
C9_DescriptorMatchesPage ==
  [][ \A r \in Reqs :
        (Returns(r) /\ resp'[r].status = 200
           /\ call[r].op \in {"list_products", "get_user_orders"}) =>
          LET c == call[r]
              matching == IF c.op = "list_products"
                          THEN MatchingProducts(products, ProductQueryFilter(c.name, c.size))
                          ELSE MatchingOrders(orders, c.user_id)
              has_next == IsSome(resp'[r].body.page.next)
          IN  has_next <=> Cardinality(matching) > c.offset + c.limit
    ]_vars

(***************************************************************************)
(* Properties of the list queries, one request at a time (SpecSeq)         *)
(***************************************************************************)
IsList(op) == op \in {"list_products", "get_user_orders"}

\* C3: in both list operations, with total_count the count the handler read:
\* next is present iff offset + limit < total_count and is then offset + limit;
\* previous is present iff offset > 0 and is then max(0, offset - limit);
\* page.limit is the requested limit.
C3_PageDescriptor ==
  [][ \A r \in Reqs :
        (Returns(r) /\ resp'[r].status = 200 /\ IsList(call[r].op)) =>
          LET c == call[r]
              total == local[r].total_count
              page == resp'[r].body.page
          IN  /\ IsSome(page.next) <=> c.offset + c.limit < total
              /\ IsSome(page.next) => ParseInt(Val(page.next)) = c.offset + c.limit
              /\ IsSome(page.previous) <=> c.offset > 0
              /\ IsSome(page.previous) =>
                   ParseInt(Val(page.previous)) = Max(0, c.offset - c.limit)
              /\ page.limit = c.limit
    ]_vars

\* the scenario of the specification: limit 1, offset 0 over 3 stored products
\* gives next = "1" and previous = null
C3_Witness ==
  /\ Returned(1, "list_products")
  /\ resp[1].status = 200
  /\ call[1].limit = 1 /\ call[1].offset = 0 /\ call[1].name = None
  /\ Cardinality(products) = 3
  /\ resp[1].body.page = [next |-> Some(<<"1">>), limit |-> 1, previous |-> None]

\* what a list request selects: every product the filter of the model matches,
\* or the orders whose userId is the path's user_id
Selected(c) ==
  IF c.op = "list_products"
  THEN MatchingProducts(products, ProductQueryFilter(c.name, c.size))
  ELSE {o \in orders : o.userId = c.user_id}

\* the document of S with exactly k documents of S created before it
AtPosition(S, k) == CHOOSE d \in S : Cardinality({e \in S : e._id < d._id}) = k

\* C5: a list query run without concurrent writes returns the documents at
\* positions offset .. offset+limit-1 of the selected documents in creation
\* order, min(limit, max(0, totalCount - offset)) of them; at offset >= totalCount
\* the page is empty, next is absent and previous is present iff offset > 0.
C5_PageContents ==
  \A r \in Reqs :
    (pc[r] = "done" /\ IsList(call[r].op) /\ resp[r].status = 200) =>
      LET c == call[r]
          S == Selected(c)
          total == Cardinality(S)
          data == resp[r].body.data
          page == resp[r].body.page
      IN  /\ Len(data) = Min(c.limit, Max(0, total - c.offset))
          /\ \A i \in 1..Len(data) :
               LET d == AtPosition(S, c.offset + i - 1)
               IN  /\ data[i].id = ObjectIdStr(d._id)
                   /\ IF c.op = "list_products"
                      THEN data[i] = [id |-> data[i].id, name |-> d.name, price |-> d.price]
                      ELSE data[i] = [id |-> data[i].id, items |-> d.items, total |-> d.total]
          /\ c.offset >= total =>
               /\ data = <<>>
               /\ page.next = None
               /\ IsSome(page.previous) <=> c.offset > 0

\* the second order of user u1 is returned alone while another user has an
\* earlier order
C5_Witness ==
  /\ Returned(1, "get_user_orders")
  /\ resp[1].status = 200
  /\ call[1].user_id = "u1" /\ call[1].offset = 1 /\ call[1].limit = 2
  /\ Len(resp[1].body.data) = 1
  /\ \E o \in orders : o.userId = "u2" /\ o._id < FromHex(resp[1].body.data[1].id)

\* a page requested past the last selected document is empty
C5_WitnessPastEnd ==
  /\ Returned(1, "list_products")
  /\ resp[1].status = 200
  /\ call[1].offset = Cardinality(Selected(call[1])) /\ call[1].offset > 0
  /\ resp[1].body.data = <<>>

(***************************************************************************)
(* Properties of the product filter (SpecFilter)                           *)
(***************************************************************************)
\* text contains needle as a case-insensitive substring, every character literal
LiteralContains(needle, text) ==
  \E start \in 0..(Len(text) - Len(needle)) :
    \A k \in 1..Len(needle) : LowerChar(needle[k]) = LowerChar(text[start + k])

\* text contains needle case-insensitively, "." standing for any one character
WildcardContains(needle, text) ==
  \E start \in 0..(Len(text) - Len(needle)) :
    \A k \in 1..Len(needle) :
      needle[k] = "." \/ LowerChar(needle[k]) = LowerChar(text[start + k])

HasSize(p, label) == \E i \in 1..Len(p.sizes) : p.sizes[i].size = label

\* the products the list request in slot r must return, given which products match
ListedAs(r, matched) ==
  /\ pc[r] = "lp_find" => local[r].total_count = Cardinality(matched)
  /\ (Returned(r, "list_products") /\ resp[r].status = 200) =>
       /\ LET page == SkipLimit(SortById(matched), call[r].offset, call[r].limit)
          IN  resp[r].body.data = [i \in 1..Len(page) |-> product_helper(page[i])]
       /\ IsSome(resp[r].body.page.next) <=>
            call[r].offset + call[r].limit < Cardinality(matched)

InListProducts(r) == pc[r] = "lp_find" \/ Returned(r, "list_products")

\* C8 as claimed: list_products matches exactly the products whose name contains
\* the literal text of name, case-insensitively (or name is absent), and that
\* have a size entry equal to size (or size is absent).
C8_LiteralFilter ==
  \A r \in Reqs :
    InListProducts(r) =>
      ListedAs(r, {p \in products :
                     /\ call[r].name = None \/ LiteralContains(Val(call[r].name), p.name)
                     /\ call[r].size = None \/ HasSize(p, Val(call[r].size))})

\* C8 as amended: name is a case-insensitive, unanchored pattern: a name without
\* pattern characters matches as literal text, "." matches any one character;
\* an empty name and an empty size constrain nothing, like absent ones; a name
\* that is no valid pattern is answered 500.
C8_PatternFilter ==
  \A r \in Reqs :
    InListProducts(r) =>
      LET name == call[r].name
          size == call[r].size
          Plain(t) == \A k \in 1..Len(t) : t[k] # "."
      IN  /\ ListedAs(r, {p \in products :
                /\ \/ name = None
                   \/ Val(name) = <<>>
                   \/ Plain(Val(name)) /\ LiteralContains(Val(name), p.name)
                   \/ ~Plain(Val(name)) /\ WildcardContains(Val(name), p.name)
                /\ \/ size = None
                   \/ Val(size) = ""
                   \/ HasSize(p, Val(size))})
          /\ (Returned(r, "list_products") /\ IsSome(name)
                /\ \E k \in 1..Len(Val(name)) : Val(name)[k] = "(") =>
               resp[r].status = 500

\* name "ab" found product "Ab" and not product "b", with size "M" given
C8_Witness ==
  /\ Returned(1, "list_products")
  /\ resp[1].status = 200
  /\ call[1].name = Some(<<"a", "b">>) /\ call[1].size = Some("M")
  /\ call[1].offset = 0
  /\ Len(resp[1].body.data) = 1
  /\ resp[1].body.data[1].name = <<"A", "b">>
  /\ \E p \in products : p.name = <<"b">>

(***************************************************************************)
(* SpecWalk: a client pages through a list.  It sends a list request with  *)
(* a fixed limit at its current offset, reads the response, and asks again *)
(* at the offset page.next names, until next is absent.  No product or     *)
(* order is created while the client is walking.                           *)
(***************************************************************************)
WalkArgs ==
  {[op |-> "list_products", name |-> n, size |-> None] : n \in SeqNames}
    \cup {[op |-> "get_user_orders", user_id |-> u] : u \in Users}

\* the client starts at offset start
WalkBegin(args, limit, start) ==
  /\ walk = NoWalk
  /\ Free(1)
  /\ walk' = [active |-> TRUE, args |-> args, limit |-> limit, start |-> start,
              offset |-> start, from |-> None, n |-> 0, got |-> <<>>, state |-> "ask"]
  /\ UNCHANGED <<products, orders, call, pc, local, resp>>

\* the client sends the request for its current offset
WalkAsk ==
  /\ walk.active /\ walk.state = "ask"
  /\ IF walk.args.op = "list_products"
     THEN ListProductsCount(1, walk.args.name, walk.args.size, walk.limit, walk.offset)
     ELSE GetUserOrdersCount(1, walk.args.user_id, walk.limit, walk.offset)
  /\ walk' = [walk EXCEPT !.state = "wait"]

\* the client reads the response and follows page.next
WalkReceive ==
  /\ walk.active /\ walk.state = "wait"
  /\ pc[1] = "done"
  /\ IF resp[1].status # 200
     THEN walk' = [walk EXCEPT !.state = "failed"]
     ELSE LET body == resp[1].body
              ids == [i \in 1..Len(body.data) |-> body.data[i].id]
          IN  walk' = [walk EXCEPT
                !.n = @ + 1,
                !.got = @ \o ids,
                !.from = IF IsSome(body.page.next) THEN Some(walk.offset) ELSE @,
                !.offset = IF IsSome(body.page.next) THEN ParseInt(Val(body.page.next)) ELSE @,
                !.state = IF IsSome(body.page.next) THEN "ask" ELSE "end"]
  /\ UNCHANGED <<products, orders, call, pc, local, resp>>

\* the client is done with its walk
WalkEnd ==
  /\ walk.active /\ walk.state \in {"end", "failed"}
  /\ walk' = NoWalk
  /\ UNCHANGED <<products, orders, call, pc, local, resp>>

NextWalk ==
  \/ \E product \in ProductInputs :
       /\ walk = NoWalk /\ ProductRoom(MaxProducts + 1)
       /\ CreateProduct(1, product) /\ UNCHANGED walk
  \/ \E order \in SeqOrderInputs :
       /\ walk = NoWalk /\ OrderRoom(MaxOrders + 1)
       /\ CreateOrderBegin(1, order) /\ UNCHANGED walk
  \/ CreateOrderItem(1) /\ UNCHANGED walk
  \/ CreateOrderInsert(1) /\ UNCHANGED walk
  \/ \E args \in WalkArgs, limit \in Limits, start \in {0, 1} : WalkBegin(args, limit, start)
  \/ WalkAsk
  \/ ListProductsFind(1) /\ UNCHANGED walk
  \/ GetUserOrdersFind(1) /\ UNCHANGED walk
  \/ WalkReceive
  \/ WalkEnd

SpecWalk == Init /\ [][NextWalk]_vars

\* the documents a walk selects, and the ids of all of them in creation order
WalkSelected ==
  IF walk.args.op = "list_products"
  THEN MatchingProducts(products, ProductQueryFilter(walk.args.name, walk.args.size))
  ELSE {o \in orders : o.userId = walk.args.user_id}

AllIds(S) == [k \in 1..Cardinality(S) |-> ObjectIdStr(AtPosition(S, k - 1)._id)]

\* ceil(total / limit), and 1 when there is nothing to list
RequestsNeeded(total, limit) ==
  IF total = 0 THEN 1 ELSE (total + limit - 1) \div limit

\* C10: with no writes in between, a walk from offset 0 that follows page.next
\* ends after ceil(totalCount / limit) requests (one when totalCount = 0), never
\* asks more often than that, and has then received every selected document once,
\* in creation order; and the page reached by following next names, as its
\* previous, the offset of the page it was reached from.
C10_Walk ==
  walk.active =>
    LET S == WalkSelected
        needed == RequestsNeeded(Cardinality(S), walk.limit)
    IN  /\ walk.start = 0 =>
              /\ walk.state \in {"ask", "wait"} => walk.n < needed
              /\ walk.state = "end" => walk.n = needed /\ walk.got = AllIds(S)
              /\ walk.got = SubSeq(AllIds(S), 1, Len(walk.got))
        /\ (walk.state = "wait" /\ pc[1] = "done" /\ resp[1].status = 200
              /\ IsSome(walk.from)) =>
              /\ IsSome(resp[1].body.page.previous)
              /\ ParseInt(Val(resp[1].body.page.previous)) = Val(walk.from)

\* a walk over three products with limit 2 ended after two requests
C10_Witness ==
  /\ walk.active /\ walk.state = "end" /\ walk.start = 0
  /\ walk.args.op = "list_products" /\ walk.args.name = None
  /\ walk.limit = 2 /\ walk.n = 2
  /\ Len(walk.got) = 3

====
